---- MODULE Spec2Model ----
(***************************************************************************)
(* Model of backend/utils.py: the system prompt, the configured model     *)
(* name and get_agent_response, the wrapper around litellm.completion.    *)
(*                                                                         *)
(* Strings are sequences of Unicode code points so that str.strip() is   *)
(* computed, not assumed.  Python lists are objects: every invocation     *)
(* owns the list objects of its frame, named by their allocation site,    *)
(* and its local variables hold references to them.                       *)
(***************************************************************************)
EXTENDS Naturals, Sequences, FiniteSets

VARIABLES
    config,    \* module globals SYSTEM_PROMPT and MODEL_NAME
    pc,        \* per caller: position of its invocation
    obj,       \* per caller: the list objects of the invocation, by allocation site
    frame,     \* per caller: local variables of get_agent_response (references)
    requests,  \* per caller: the calls litellm.completion received in this invocation
    outcome,   \* per caller: what litellm.completion did (returned / raised)
    ret,       \* per caller: what get_agent_response gave back (value / exception)
    arg0,      \* per caller: snapshot of the argument list when the call was made
    session    \* per caller: bookkeeping of the caller's chain of calls

vars == <<config, pc, obj, frame, requests, outcome, ret, arg0, session>>

----------------------------------------------------------------------------
\* Bounds of the model.

\* Longest fresh conversation a caller passes.
MaxLen == 2

\* Longest reply text the provider produces.
MaxReplyLen == 3

\* Calls a caller makes on one conversation.
MaxTurns == 2

\* Longest conversation passed by callers that run at the same time.
MaxConcurrentLen == 1

Callers == {"c1"}
ConcurrentCallers == {"c1", "c2"}

----------------------------------------------------------------------------
\* Configuration.

\* The text of lines 19-53, abbreviated to its first three characters,
\* "You".
SYSTEM_PROMPT == <<89, 111, 117>>

\* The fallback of line 56, "gpt-4o-mini".
DEFAULT_MODEL_NAME == <<103, 112, 116, 45, 52, 111, 45, 109, 105, 110, 105>>

\* Line 56, os.environ.get("MODEL_NAME", "gpt-4o-mini"), with the variable
\* unset in the environment.
MODEL_NAME == DEFAULT_MODEL_NAME

----------------------------------------------------------------------------
\* Strings.

\* The characters str.strip() without an argument removes: every code point
\* c with chr(c).isspace().  \t \n \x0b \f \r, \x1c-\x1f and the space, then
\* U+0085, U+00A0, U+1680, U+2000-U+200A, U+2028, U+2029, U+202F, U+205F
\* and U+3000.
Whitespace ==
    (9..13) \cup (28..32) \cup {133, 160, 5760} \cup (8192..8202)
        \cup {8232, 8233, 8239, 8287, 12288}

RECURSIVE lstrip(_)
lstrip(s) == IF s = <<>> \/ Head(s) \notin Whitespace THEN s ELSE lstrip(Tail(s))

RECURSIVE rstrip(_)
rstrip(s) ==
    IF s = <<>> \/ s[Len(s)] \notin Whitespace THEN s
    ELSE rstrip(SubSeq(s, 1, Len(s) - 1))

\* Variant: str.lstrip() in place of str.strip().
stripLeftOnly(s) == lstrip(s)

strip(s) == rstrip(lstrip(s))

RECURSIVE StringsUpTo(_, _)
StringsUpTo(chars, n) ==
    IF n = 0 THEN {<<>>}
    ELSE LET shorter == StringsUpTo(chars, n - 1)
         IN  shorter \cup {Append(s, c) : s \in shorter, c \in chars}

----------------------------------------------------------------------------
\* Messages and conversations.

Message(role, content) == [role |-> role, content |-> content]

Roles == {"system", "user", "assistant"}

\* Contents of the messages callers pass, here " h "; the surrounding blanks make an
\* alteration of a forwarded message visible.
InputContents == {<<32, 104, 32>>}

InputMessages == {Message(r, c) : r \in Roles, c \in InputContents}

RECURSIVE ListsUpTo(_, _)
ListsUpTo(elems, n) ==
    IF n = 0 THEN {<<>>}
    ELSE LET shorter == ListsUpTo(elems, n - 1)
         IN  shorter \cup {Append(l, e) : l \in shorter, e \in elems}

Conversations == ListsUpTo(InputMessages, MaxLen)

----------------------------------------------------------------------------
\* The provider, litellm.completion: it returns a completion or raises.

None == "None"

Str(s) == [type |-> "str", val |-> s]

NoneContent == [type |-> "NoneType", val |-> <<>>]

\* Characters of the reply texts the provider produces: the space and "a".
ReplyChars == {32, 97}

ReplyTexts == StringsUpTo(ReplyChars, MaxReplyLen)

Choice(content) == [message |-> [role |-> "assistant", content |-> content]]

\* A choice whose message has no "content" key.
ChoiceWithoutContent == [message |-> [role |-> "assistant"]]

\* Reply texts with whitespace other than the space: "\x0ba\xa0",
\* "\x1f a" and "\u2003a\u3000\n".
OtherWhitespaceTexts ==
    {<<11, 97, 160>>, <<31, 32, 97>>, <<8195, 97, 12288, 10>>}

WellFormedCompletions ==
    {[choices |-> <<Choice(Str(s))>>] : s \in ReplyTexts}
        \cup {[choices |-> <<Choice(Str(<<97, 32>>)), Choice(Str(<<98>>))>>]}
        \cup {[choices |-> <<Choice(Str(s))>>] : s \in OtherWhitespaceTexts}

MalformedCompletions ==
    { [choices |-> <<>>],
      [choices |-> <<ChoiceWithoutContent>>],
      [choices |-> <<Choice(NoneContent)>>] }

Completions == WellFormedCompletions \cup MalformedCompletions

Exception(type, origin, message) ==
    [type |-> type, origin |-> origin, message |-> message]

\* Exceptions litellm.completion raises, with the provider's diagnostic.
ProviderExceptions ==
    { Exception("APIConnectionError", "litellm", "connection refused"),
      Exception("RateLimitError", "litellm", "quota exceeded") }

NoOutcome == [kind |-> "none"]

Returned(completion) == [kind |-> "return", completion |-> completion]

Raised(exc) == [kind |-> "raise", exc |-> exc]

----------------------------------------------------------------------------
\* get_agent_response, lines 60-96.

\* Variants of line 78 that look at the wrong message: any message
\* (any(m["role"] == "system")), or the last one (messages[-1]).
NeedsSystemPromptAnywhere(messages) ==
    \A i \in 1..Len(messages) : messages[i].role # "system"

NeedsSystemPromptLast(messages) ==
    messages = <<>> \/ messages[Len(messages)].role # "system"

\* Line 78: the condition under which the default prompt is prepended.
NeedsSystemPrompt(messages) ==
    messages = <<>> \/ messages[1].role # "system"

\* Variant of lines 78-81 without the else branch: the prompt is always
\* prepended.
NormaliseAlways(messages, prompt) ==
    [objs |-> [r \in {"arg", "L79"} |->
                  IF r = "arg" THEN messages
                  ELSE <<Message("system", prompt)>> \o messages],
     current_messages |-> "L79"]

\* Lines 78-81.  The list objects of the frame after the branch, and the
\* reference current_messages holds: line 79 builds a new list ("L79"),
\* line 81 binds the argument list itself ("arg").
Normalise(messages, prompt) ==
    IF NeedsSystemPrompt(messages)
    THEN [objs |-> [r \in {"arg", "L79"} |->
                       IF r = "arg" THEN messages
                       ELSE <<Message("system", prompt)>> \o messages],
          current_messages |-> "L79"]
    ELSE [objs |-> [r \in {"arg"} |-> messages],
          current_messages |-> "arg"]

\* Lines 83-86: the request litellm.completion receives.
Request(model, messages) == [model |-> model, messages |-> messages]

\* Lines 88-90: completion["choices"][0]["message"]["content"].strip().
ExtractReply(completion) ==
    IF Len(completion.choices) = 0
    THEN Raised(Exception("IndexError", "get_agent_response",
                          "list index out of range"))
    ELSE LET message == completion.choices[1].message
         IN  IF "content" \notin DOMAIN message
             THEN Raised(Exception("KeyError", "get_agent_response", "'content'"))
             ELSE IF message.content.type # "str"
             THEN Raised(Exception("AttributeError", "get_agent_response",
                                   "'NoneType' object has no attribute 'strip'"))
             ELSE [kind |-> "value", content |-> strip(message.content.val)]

\* Variant of lines 93-95 that forgets the reply: list(current_messages).
UpdatedMessagesNoReply(objs, current_messages, reply) ==
    [objs |-> [r \in DOMAIN objs \cup {"L93"} |->
                  IF r = "L93" THEN objs[current_messages] ELSE objs[r]],
     updated_messages |-> "L93"]

\* Variant of lines 93-95 that appends in place: current_messages.append(...)
\* and returns current_messages.
UpdatedMessagesInPlace(objs, current_messages, reply) ==
    [objs |-> [objs EXCEPT ![current_messages] =
                  Append(@, Message("assistant", reply))],
     updated_messages |-> current_messages]

\* Lines 93-95: current_messages + [{"role": "assistant", ...}] builds a
\* new list ("L93"); the frame's other lists are left as they are.
UpdatedMessages(objs, current_messages, reply) ==
    [objs |-> [r \in DOMAIN objs \cup {"L93"} |->
                  IF r = "L93"
                  THEN objs[current_messages] \o <<Message("assistant", reply)>>
                  ELSE objs[r]],
     updated_messages |-> "L93"]

NoReturn == [kind |-> "none"]

NoSession == [turn |-> 0, prepends |-> 0, first |-> <<>>]

NoFrame ==
    [messages |-> None, current_messages |-> None, updated_messages |-> None]

InitOf(callers) ==
    /\ config = [SYSTEM_PROMPT |-> SYSTEM_PROMPT, MODEL_NAME |-> MODEL_NAME]
    /\ pc = [t \in callers |-> "idle"]
    /\ obj = [t \in callers |-> <<>>]
    /\ frame = [t \in callers |-> NoFrame]
    /\ requests = [t \in callers |-> <<>>]
    /\ outcome = [t \in callers |-> NoOutcome]
    /\ ret = [t \in callers |-> NoReturn]
    /\ arg0 = [t \in callers |-> <<>>]
    /\ session = [t \in callers |-> NoSession]

\* Lines 60-86: caller t passes the list C; the function normalises it and
\* enters litellm.completion.
Enter(t, C, sess) ==
    LET n == Normalise(C, config.SYSTEM_PROMPT)
    IN  /\ obj' = [obj EXCEPT ![t] = n.objs]
        /\ frame' = [frame EXCEPT ![t] =
                        [messages |-> "arg",
                         current_messages |-> n.current_messages,
                         updated_messages |-> None]]
        /\ requests' = [requests EXCEPT ![t] =
                           <<Request(config.MODEL_NAME, n.objs[n.current_messages])>>]
        /\ outcome' = [outcome EXCEPT ![t] = NoOutcome]
        /\ ret' = [ret EXCEPT ![t] = NoReturn]
        /\ arg0' = [arg0 EXCEPT ![t] = C]
        /\ session' = [session EXCEPT ![t] =
                          [turn |-> sess.turn + 1,
                           prepends |-> sess.prepends
                               + (IF n.current_messages = "L79" THEN 1 ELSE 0),
                           first |-> sess.first]]
        /\ pc' = [pc EXCEPT ![t] = "waiting"]
        /\ UNCHANGED config

\* A caller starts a conversation.
Call(t) ==
    /\ pc[t] = "idle"
    /\ \E C \in Conversations : Enter(t, C, NoSession)

\* One of several callers running at the same time starts a conversation.
CallConcurrent(t) ==
    /\ pc[t] = "idle"
    /\ \E C \in ListsUpTo(InputMessages, MaxConcurrentLen) : Enter(t, C, NoSession)

\* A caller passes a returned conversation, with one message appended, back in.
FollowUp(t) ==
    /\ pc[t] = "returned"
    /\ session[t].turn < MaxTurns
    /\ \E m \in InputMessages :
          Enter(t, Append(obj[t][ret[t].ref], m), session[t])

\* litellm.completion returns a completion.
ProviderReturns(t) ==
    /\ pc[t] = "waiting"
    /\ \E c \in Completions : outcome' = [outcome EXCEPT ![t] = Returned(c)]
    /\ pc' = [pc EXCEPT ![t] = "responded"]
    /\ UNCHANGED <<config, obj, frame, requests, ret, arg0, session>>

\* litellm.completion raises.
ProviderRaises(t) ==
    /\ pc[t] = "waiting"
    /\ \E e \in ProviderExceptions : outcome' = [outcome EXCEPT ![t] = Raised(e)]
    /\ pc' = [pc EXCEPT ![t] = "responded"]
    /\ UNCHANGED <<config, obj, frame, requests, ret, arg0, session>>

\* Variant of line 83 that catches the exception and returns the history
\* without a reply.
PropagateReturnsPartial(t) ==
    /\ pc[t] = "responded"
    /\ outcome[t].kind = "raise"
    /\ ret' = [ret EXCEPT ![t] =
                  [kind |-> "value", ref |-> frame[t].current_messages]]
    /\ pc' = [pc EXCEPT ![t] = "returned"]
    /\ UNCHANGED <<config, obj, frame, requests, outcome, arg0, session>>

\* Variant of line 83 that calls litellm.completion a second time after a
\* failure before giving up.
PropagateRetries(t) ==
    /\ pc[t] = "responded"
    /\ outcome[t].kind = "raise"
    /\ IF Len(requests[t]) < 2
       THEN /\ requests' = [requests EXCEPT ![t] = Append(@, @[1])]
            /\ outcome' = [outcome EXCEPT ![t] = NoOutcome]
            /\ pc' = [pc EXCEPT ![t] = "waiting"]
            /\ UNCHANGED ret
       ELSE /\ ret' = [ret EXCEPT ![t] = Raised(outcome[t].exc)]
            /\ pc' = [pc EXCEPT ![t] = "failed"]
            /\ UNCHANGED <<requests, outcome>>
    /\ UNCHANGED <<config, obj, frame, arg0, session>>

\* Line 83: an exception of litellm.completion is not caught; it leaves
\* get_agent_response as it is.
Propagate(t) ==
    /\ pc[t] = "responded"
    /\ outcome[t].kind = "raise"
    /\ ret' = [ret EXCEPT ![t] = Raised(outcome[t].exc)]
    /\ pc' = [pc EXCEPT ![t] = "failed"]
    /\ UNCHANGED <<config, obj, frame, requests, outcome, arg0, session>>

\* Variant in which the completion is kept in a variable all invocations
\* share: an invocation reads what another invocation's call returned.
CompletionOfShared(t) ==
    LET others == {u \in DOMAIN pc \ {t} : outcome[u].kind = "return"}
    IN  IF others # {}
        THEN outcome[CHOOSE u \in others : TRUE].completion
        ELSE outcome[t].completion

\* The completion whose reply the invocation of caller t reads: the value
\* its own call on line 83 returned.
CompletionOf(t) == outcome[t].completion

\* Lines 88-96 after litellm.completion returned.
Finish(t) ==
    /\ pc[t] = "responded"
    /\ outcome[t].kind = "return"
    /\ LET reply == ExtractReply(CompletionOf(t))
       IN  IF reply.kind = "raise"
           THEN /\ ret' = [ret EXCEPT ![t] = reply]
                /\ pc' = [pc EXCEPT ![t] = "failed"]
                /\ UNCHANGED <<obj, frame, session>>
           ELSE LET u == UpdatedMessages(obj[t], frame[t].current_messages,
                                         reply.content)
                IN  /\ obj' = [obj EXCEPT ![t] = u.objs]
                    /\ frame' = [frame EXCEPT ![t].updated_messages =
                                    u.updated_messages]
                    /\ ret' = [ret EXCEPT ![t] =
                                  [kind |-> "value", ref |-> u.updated_messages]]
                    /\ session' = [session EXCEPT ![t].first =
                                      IF @ = <<>>
                                      THEN <<u.objs[u.updated_messages][1]>>
                                      ELSE @]
                    /\ pc' = [pc EXCEPT ![t] = "returned"]
    /\ UNCHANGED <<config, requests, outcome, arg0>>

Init == InitOf(Callers)

Next ==
    \E t \in Callers :
        \/ Call(t)
        \/ FollowUp(t)
        \/ ProviderReturns(t)
        \/ ProviderRaises(t)
        \/ Propagate(t)
        \/ Finish(t)

Spec == Init /\ [][Next]_vars

\* Several callers at once, each making one call.
InitConcurrent == InitOf(ConcurrentCallers)

NextConcurrent ==
    \E t \in ConcurrentCallers :
        \/ CallConcurrent(t)
        \/ ProviderReturns(t)
        \/ ProviderRaises(t)
        \/ Propagate(t)
        \/ Finish(t)

SpecConcurrent == InitConcurrent /\ [][NextConcurrent]_vars

----------------------------------------------------------------------------
\* Properties.

Invoked(t) == pc[t] # "idle"

\* The messages litellm.completion received in the invocation of caller t.
Sent(t) == requests[t][1].messages

\* The list get_agent_response returned to caller t.
Result(t) == obj[t][ret[t].ref]

\* The content of choices[0].message of the completion caller t's call got.
RawReply(t) == outcome[t].completion.choices[1].message.content.val

\* The call of caller t returned a completion whose choices[0].message
\* holds a string content.
HasReply(t) ==
    /\ outcome[t].kind = "return"
    /\ Len(outcome[t].completion.choices) >= 1
    /\ "content" \in DOMAIN outcome[t].completion.choices[1].message
    /\ outcome[t].completion.choices[1].message.content.type = "str"

DefaultSystemMessage == [role |-> "system", content |-> SYSTEM_PROMPT]

StartsWithSystem(C) == C # <<>> /\ C[1].role = "system"

\* c is r without its leading and trailing whitespace.
IsStripped(c, r) ==
    \E i, j \in 0..Len(r) :
        /\ i + j <= Len(r)
        /\ c = SubSeq(r, i + 1, Len(r) - j)
        /\ \A k \in 1..i : r[k] \in Whitespace
        /\ \A k \in (Len(r) - j + 1)..Len(r) : r[k] \in Whitespace
        /\ c = <<>> \/ (c[1] \notin Whitespace /\ c[Len(c)] \notin Whitespace)

\* C1: a conversation that is empty or does not start with a system message
\* (wherever else it holds one) is sent as the default system message
\* followed by the conversation itself, message by message.
C1_DefaultPromptPrepended ==
    \A t \in DOMAIN pc :
        (Invoked(t) /\ ~StartsWithSystem(arg0[t]))
            => /\ Len(Sent(t)) = Len(arg0[t]) + 1
               /\ Sent(t)[1] = DefaultSystemMessage
               /\ \A i \in 1..Len(arg0[t]) : Sent(t)[i + 1] = arg0[t][i]

C1_Witness ==
    \E t \in DOMAIN pc :
        /\ pc[t] = "waiting"
        /\ Len(arg0[t]) = 2
        /\ arg0[t][1].role = "user"
        /\ arg0[t][2].role = "system"
        /\ Len(Sent(t)) = 3

\* C2: a conversation that starts with a system message is sent exactly as
\* it is: same length, same messages in the same order, no default prompt.
C2_SystemFirstSentUnchanged ==
    \A t \in DOMAIN pc :
        (Invoked(t) /\ StartsWithSystem(arg0[t]))
            => /\ Len(Sent(t)) = Len(arg0[t])
               /\ \A i \in 1..Len(arg0[t]) : Sent(t)[i] = arg0[t][i]
               /\ Sent(t)[1].content = arg0[t][1].content

C2_Witness ==
    \E t \in DOMAIN pc :
        /\ pc[t] = "waiting"
        /\ Len(arg0[t]) = 2
        /\ arg0[t][1].role = "system"
        /\ arg0[t][1].content # SYSTEM_PROMPT
        /\ Sent(t) = arg0[t]

\* C3: the last message returned is the assistant message whose content is
\* the content of choices[0].message without leading and trailing
\* whitespace, and the messages before it are exactly those sent, position
\* by position: the result is the list sent with that one message appended.
C3_ReplyAppendedStripped ==
    \A t \in DOMAIN pc :
        pc[t] = "returned"
            => LET R == Result(t)
               IN  /\ Len(R) >= 1
                   /\ R[Len(R)].role = "assistant"
                   /\ HasReply(t)
                   /\ IsStripped(R[Len(R)].content, RawReply(t))
                   /\ Len(R) = Len(Sent(t)) + 1
                   /\ SubSeq(R, 1, Len(R) - 1) = Sent(t)
                   /\ \A i \in 1..(Len(R) - 1) : R[i] = Sent(t)[i]
                   /\ DOMAIN R[Len(R)] = {"role", "content"}

C3_Witness ==
    \E t \in DOMAIN pc :
        /\ pc[t] = "returned"
        /\ RawReply(t) = <<11, 97, 160>>
        /\ Result(t)[Len(Result(t))].content = <<97>>

\* C4: the returned list is one longer than the list sent, which makes it
\* two longer than the argument when the prompt was prepended and one
\* longer otherwise.
C4_LengthPlusOne ==
    \A t \in DOMAIN pc :
        pc[t] = "returned"
            => /\ Len(Result(t)) = Len(Sent(t)) + 1
               /\ Len(Result(t)) =
                      Len(arg0[t]) + (IF StartsWithSystem(arg0[t]) THEN 1 ELSE 2)

C4_Witness ==
    \E t \in DOMAIN pc :
        /\ pc[t] = "returned"
        /\ ~StartsWithSystem(arg0[t])
        /\ Len(arg0[t]) = 2
        /\ Len(Result(t)) = 4

\* C5: when the provider call fails the caller gets an exception and never
\* a list, and a caller that got a list had a provider call that returned.
C5_NoListOnFailure ==
    \A t \in DOMAIN pc :
        /\ outcome[t].kind = "raise" => ret[t].kind \in {"none", "raise"}
        /\ pc[t] = "failed" => ret[t].kind = "raise" /\ frame[t].updated_messages = None
        /\ ret[t].kind = "value" => outcome[t].kind = "return"

C5_Witness ==
    \E t \in DOMAIN pc :
        /\ pc[t] = "failed"
        /\ outcome[t].kind = "raise"
        /\ ret[t] = Raised(outcome[t].exc)

\* C6: every failure of get_agent_response is an exception of the provider
\* carrying the provider's diagnostic, also when the provider returned a
\* malformed completion.
C6_EveryFailureIsProviderError ==
    \A t \in DOMAIN pc :
        pc[t] = "failed"
            => /\ ret[t].kind = "raise"
               /\ ret[t].exc \in ProviderExceptions

\* C7: an invocation calls the provider exactly once, whether the call
\* returns or raises.
C7_ProviderCalledOnce ==
    \A t \in DOMAIN pc : Invoked(t) => Len(requests[t]) = 1

C7_Witness ==
    \E t \in DOMAIN pc :
        /\ pc[t] = "failed"
        /\ outcome[t].kind = "raise"
        /\ Len(requests[t]) = 1

\* C8: the argument list and the configuration are as they were before the
\* call, on success and on failure, and the returned list is another list
\* object than the argument.
C8_InputAndConfigUnchanged ==
    /\ config = [SYSTEM_PROMPT |-> SYSTEM_PROMPT, MODEL_NAME |-> MODEL_NAME]
    /\ \A t \in DOMAIN pc :
          Invoked(t)
              => /\ frame[t].messages = "arg"
                 /\ obj[t]["arg"] = arg0[t]
                 /\ ret[t].kind = "value" => ret[t].ref # frame[t].messages

C8_Witness ==
    \E t \in DOMAIN pc :
        /\ pc[t] = "returned"
        /\ StartsWithSystem(arg0[t])
        /\ frame[t].current_messages = frame[t].messages
        /\ Len(Result(t)) = Len(obj[t]["arg"]) + 1

\* C9: with several invocations in progress at once, each sends what its own
\* argument determines and returns that followed by the reply to its own
\* provider call.
C9_ConcurrentCallsIndependent ==
    \A t \in DOMAIN pc :
        Invoked(t)
            => /\ Sent(t) = IF StartsWithSystem(arg0[t]) THEN arg0[t]
                            ELSE <<DefaultSystemMessage>> \o arg0[t]
               /\ pc[t] = "returned"
                     => /\ Len(Result(t)) = Len(Sent(t)) + 1
                        /\ SubSeq(Result(t), 1, Len(Result(t)) - 1) = Sent(t)
                        /\ Result(t)[Len(Result(t))].role = "assistant"
                        /\ HasReply(t)
                        /\ IsStripped(Result(t)[Len(Result(t))].content, RawReply(t))

C9_Witness ==
    \E t, u \in DOMAIN pc :
        /\ t # u
        /\ pc[t] = "returned"
        /\ pc[u] = "returned"
        /\ arg0[t] # arg0[u]
        /\ Result(t)[Len(Result(t))].content # Result(u)[Len(Result(u))].content

\* C10: a returned conversation starts with a system message; over a chain
\* of calls that pass a returned conversation back with a message appended,
\* the default prompt is prepended at most once and the first message stays
\* the one the first call returned.
C10_SystemFirstOnceInChain ==
    \A t \in DOMAIN pc :
        /\ session[t].prepends <= 1
        /\ pc[t] = "returned"
              => /\ Result(t)[1].role = "system"
                 /\ Result(t)[1] = session[t].first[1]
        /\ (Invoked(t) /\ session[t].turn > 1) => Sent(t) = arg0[t]

C10_Witness ==
    \E t \in DOMAIN pc :
        /\ pc[t] = "returned"
        /\ session[t].turn = 2
        /\ session[t].prepends = 1
        /\ Result(t)[1] = DefaultSystemMessage

====
